---- MODULE Spec2Model ----
(***************************************************************************)
(* The operator-decomposition registry of torch/_decomp/__init__.py:       *)
(* the three mode tables, register_decomposition, get_decompositions and   *)
(* the load-time activate_meta pass.                                       *)
(*                                                                         *)
(* A Python dict is a sequence of [key, value] records with pairwise       *)
(* distinct keys, in insertion order (the order a dict iterates in).       *)
(***************************************************************************)
EXTENDS Integers, Sequences, FiniteSets, TLC

VARIABLES
    global_decomposition_table,  \* mode name -> dict OpOverload -> callable
    custom_registry,             \* a caller-owned dict passed as registry=
    disabled_meta_decomps,       \* the set _disabled_meta_decomps
    py_kernels,                  \* calls op_overload.py_impl(Meta)(fn), in order
    meta_lib_impls,              \* calls meta_lib.impl(op_overload, fn), in order
    phase,                       \* "loading" until line 260 has run
    last,                        \* the last call made: its arguments and outcome
    before,                      \* the state as it was when the last call began
    registrations,               \* the entries inserted so far, each with the
                                 \* disable_meta its call was made with
    activate_meta_calls,         \* how often activate_meta has been called
    f_calls,                     \* the calls of the body f the last call made
    scheduler                    \* the LambdaSL the last construction made, with
                                 \* the arguments it was made from

vars == <<global_decomposition_table, custom_registry, disabled_meta_decomps,
          py_kernels, meta_lib_impls, phase, last, before, registrations,
          activate_meta_calls, f_calls, scheduler>>

----------------------------------------------------------------------------
(* Bounds of the model *)

\* register_decomposition is called while fewer than MaxEntries entries exist.
MaxEntries == 2

----------------------------------------------------------------------------
(* Operator identities: OpOverload and OpOverloadPacket of torch._ops *)

OpOverload(name, overload_name) ==
    [kind |-> "OpOverload", name |-> name, overload_name |-> overload_name]

OpOverloadPacket(name) ==
    [kind |-> "OpOverloadPacket", name |-> name, overload_name |-> ""]

add_Tensor   == OpOverload("aten::add", "Tensor")
add_Scalar   == OpOverload("aten::add", "Scalar")
add_out      == OpOverload("aten::add", "out")
view_default == OpOverload("aten::view", "")

AllOverloads == {add_Tensor, add_Scalar, add_out, view_default}

add_packet  == OpOverloadPacket("aten::add")
view_packet == OpOverloadPacket("aten::view")

AllPackets == {add_packet, view_packet}

\* aten_op.overloads(): the overload names of a packet, in the packet's order
overloads(packet) ==
    IF packet = add_packet THEN <<"Tensor", "Scalar", "out">>
    ELSE IF packet = view_packet THEN <<"">>
    ELSE <<>>

\* getattr(aten_op, ol)
getattr(packet, ol) == OpOverload(packet.name, ol)

\* opo.overloadpacket
overloadpacket(opo) == OpOverloadPacket(opo.name)

\* op_overload._schema.arguments: per formal argument its alias_info,
\* "None" (no alias info), "write" (is_write) or "read" (not is_write)
schema_arguments(opo) ==
    IF opo = add_out THEN <<"None", "None", "write">>
    ELSE IF opo = view_default THEN <<"read", "None">>
    ELSE <<"None", "None">>

\* torch._C._dispatch_dump(name): the dispatch keys the listing names
dispatch_dump(name) ==
    IF name = "aten::add.Scalar" THEN {"CPU", "CompositeImplicitAutograd"}
    ELSE IF name = "aten::view" THEN {"CPU", "Meta"}
    ELSE {"CPU"}

\* 'CompositeImplicitAutograd' in dispatch_key_registration: a substring test,
\* so a key whose name merely starts with the marker matches as well
has_composite_marker(dispatch_key_registration) ==
    \E key \in dispatch_key_registration :
        key \in {"CompositeImplicitAutograd", "CompositeImplicitAutogradNestedTensor"}

----------------------------------------------------------------------------
(* Decomposition callables *)

\* A callable f: its name and what f.__annotations__.get("out") is
\* ("None": no out annotation, "Tuple": a tuple type). wrapper marks the
\* _fn that register_decomposition synthesizes around f.
Callable(name, out_annotation) ==
    [name |-> name, out_annotation |-> out_annotation, wrapper |-> FALSE]

f1 == Callable("f1", "None")
g  == Callable("g", "Tuple")

h  == Callable("h", "Tuple")

None == [name |-> "None", out_annotation |-> "None", wrapper |-> FALSE]

\* line 68, sig.return_annotation._fields: the slots of the named tuple that
\* f returns (g returns (sum, count), h returns (values, indices, counts))
out_names(f) ==
    IF f.name = "g" THEN <<"sum", "count">>
    ELSE IF f.name = "h" THEN <<"values", "indices", "counts">>
    ELSE <<>>

\* fn after lines 63-103: f itself, or the wrapper _fn when out is a tuple
adapted(f) ==
    IF f.out_annotation = "Tuple" THEN [f EXCEPT !.wrapper = TRUE] ELSE f

----------------------------------------------------------------------------
(* Python dicts *)

EmptyDict == <<>>

\* k in d
DictHas(d, k) == \E i \in 1..Len(d) : d[i].key = k

\* d[k], for k in d
DictGet(d, k) == d[CHOOSE i \in 1..Len(d) : d[i].key = k].value

\* d[k] = v: a present key keeps its position, a new key goes last
DictSet(d, k, v) ==
    IF DictHas(d, k)
    THEN [i \in 1..Len(d) |-> IF d[i].key = k THEN [key |-> k, value |-> v] ELSE d[i]]
    ELSE Append(d, [key |-> k, value |-> v])

\* the keys of d, as a set
DictKeys(d) == {d[i].key : i \in 1..Len(d)}

----------------------------------------------------------------------------
(* register_decomposition *)

Modes == {"post_autograd", "pre_autograd", "meta"}

\* faulty variant: the mode is not checked
type_is_supported_any(type) == TRUE

\* lines 60 and 185: assert type in {"post_autograd", "pre_autograd", "meta"}
type_is_supported(type) == type \in Modes

\* global_decomposition_table[key] of the defaultdict(dict): a missing key
\* reads as a new empty dict
defaultdict_get(table, key) ==
    IF key \in DOMAIN table THEN table[key] ELSE EmptyDict

\* the defaultdict once the dict of key is registry; reading a missing key
\* has put it there
defaultdict_set(table, key, registry) ==
    [k \in DOMAIN table \cup {key} |-> IF k = key THEN registry ELSE table[k]]

\* a nested container of operators, as tree_map sees it
Container(items) == [kind |-> "list", items |-> items]

\* a dict of operators, as tree_map sees it: its values in insertion order
Mapping(items) == [kind |-> "dict", items |-> items]

\* the leaves of aten_op in the order tree_map visits them
RECURSIVE tree_leaves(_)
tree_leaves(aten_op) ==
    IF aten_op.kind \in {"list", "dict"}
    THEN IF aten_op.items = <<>> THEN <<>>
         ELSE tree_leaves(Head(aten_op.items))
              \o tree_leaves(Container(Tail(aten_op.items)))
    ELSE <<aten_op>>

\* faulty variant: a packet stands for its first overload only
leaf_overloads_first_only(aten_op) ==
    IF aten_op.kind = "OpOverload" THEN <<aten_op>>
    ELSE IF overloads(aten_op) = <<>> THEN <<>>
    ELSE <<getattr(aten_op, overloads(aten_op)[1])>>

\* lines 110-116: the overloads one leaf stands for
leaf_overloads(aten_op) ==
    IF aten_op.kind = "OpOverload" THEN <<aten_op>>
    ELSE [i \in 1..Len(overloads(aten_op)) |-> getattr(aten_op, overloads(aten_op)[i])]

\* faulty variant: the insert is made before the duplicate check
insert_overload_check_after(registry, op_overload, fn) ==
    [registry |-> DictSet(registry, op_overload, fn),
     raised   |-> IF DictHas(registry, op_overload) THEN "RuntimeError" ELSE "None"]

\* faulty variant: no duplicate check, a second registration overwrites the first
insert_overload_overwrite(registry, op_overload, fn) ==
    [registry |-> DictSet(registry, op_overload, fn), raised |-> "None"]

\* lines 118-120, one turn of the loop: the duplicate check, then the insert
insert_overload(registry, op_overload, fn) ==
    IF DictHas(registry, op_overload)
    THEN [registry |-> registry, raised |-> "RuntimeError"]
    ELSE [registry |-> DictSet(registry, op_overload, fn), raised |-> "None"]

\* lines 117-120: the loop stops at the first raise and keeps what it inserted
RECURSIVE insert_overloads(_, _, _)
insert_overloads(registry, ops, fn) ==
    IF ops = <<>> THEN [registry |-> registry, raised |-> "None"]
    ELSE LET r == insert_overload(registry, Head(ops), fn)
         IN  IF r.raised # "None" THEN r
             ELSE insert_overloads(r.registry, Tail(ops), fn)

\* lines 109-120
add_op_to_table(registry, aten_op, fn) ==
    IF aten_op.kind \notin {"OpOverload", "OpOverloadPacket"}
    THEN [registry |-> registry, raised |-> "AssertionError"]
    ELSE insert_overloads(registry, leaf_overloads(aten_op), fn)

\* faulty variant: add_op_to_table is applied to the first leaf only
map_add_op_to_table_first_leaf(registry, leaves, fn) ==
    IF leaves = <<>> THEN [registry |-> registry, raised |-> "None"]
    ELSE add_op_to_table(registry, Head(leaves), fn)

\* line 164, tree_map(add_op_to_table, aten_op) over the leaves in order
RECURSIVE map_add_op_to_table(_, _, _)
map_add_op_to_table(registry, leaves, fn) ==
    IF leaves = <<>> THEN [registry |-> registry, raised |-> "None"]
    ELSE LET r == add_op_to_table(registry, Head(leaves), fn)
         IN  IF r.raised # "None" THEN r
             ELSE map_add_op_to_table(r.registry, Tail(leaves), fn)

\* faulty variant: the decorator returns the callable it was given
returned_callable_original(f, fn) == f

\* line 165: return fn
returned_callable(f, fn) == fn

\* lines 62-165: the effect of the decorator on the registry it writes to
decomposition_decorator(registry, aten_op, f) ==
    LET fn == adapted(f)
        r  == map_add_op_to_table(registry, tree_leaves(aten_op), fn)
    IN  [registry |-> r.registry,
         raised   |-> r.raised,
         returned |-> IF r.raised = "None" THEN returned_callable(f, fn) ELSE None]

\* faulty variant: the registration installs what it inserts, as the code
\* of lines 121-161 did before it was commented out
registration_impls_installs(impls, inserted) == impls \o inserted

\* lines 117-120: the loop body inserts into the registry and calls nothing
\* of meta_lib (lines 121-161 are comments)
registration_impls(impls, inserted) == impls

NoCall ==
    [op |-> "none", type |-> "", aten_op |-> Container(<<>>), registry |-> "None",
     disable_meta |-> FALSE, f |-> None, aten_ops |-> <<>>,
     args |-> <<>>, kwargs |-> <<>>,
     raised |-> "None", returned |-> None, result |-> EmptyDict]

\* faulty variant: the registry argument is ignored
registry_key_ignores_registry(use_registry, type) == type

\* faulty variant: the mode is ignored, the default table is written to
registry_key_default(use_registry, type) ==
    IF use_registry THEN "custom" ELSE "post_autograd"

\* lines 105-107: the dict the decorator writes to, the caller's when one
\* was passed and the mode's table otherwise
registry_key(use_registry, type) ==
    IF use_registry THEN "custom" ELSE type

\* the dict a key stands for
registry_of(table, custom, key) ==
    IF key = "custom" THEN custom ELSE defaultdict_get(table, key)

\* the dicts as a call finds them
Snapshot ==
    [table |-> global_decomposition_table, custom |-> custom_registry,
     disabled |-> disabled_meta_decomps, impls |-> meta_lib_impls,
     kernels |-> py_kernels, phase |-> phase]

\* the number of entries of all dicts
TotalEntries ==
    Len(global_decomposition_table["post_autograd"])
    + Len(global_decomposition_table["pre_autograd"])
    + Len(global_decomposition_table["meta"])
    + Len(custom_registry)

\* register_decomposition(aten_op, registry, type=type, disable_meta=disable_meta)(f);
\* registry is the caller's dict (use_registry) or None
register_decomposition(aten_op, use_registry, type, disable_meta, f) ==
    LET call == [NoCall EXCEPT !.op = "register_decomposition", !.type = type,
                               !.aten_op = aten_op, !.disable_meta = disable_meta,
                               !.registry = IF use_registry THEN "custom" ELSE "None",
                               !.f = f]
    IN
    /\ TotalEntries < MaxEntries
    /\ before' = Snapshot
    /\ IF ~type_is_supported(type)
       THEN \* line 60
            /\ last' = [call EXCEPT !.raised = "AssertionError"]
            /\ UNCHANGED <<global_decomposition_table, custom_registry, registrations,
                           meta_lib_impls>>
       ELSE LET key == registry_key(use_registry, type)
                registry == registry_of(global_decomposition_table, custom_registry, key)
                r == decomposition_decorator(registry, aten_op, f)
            IN  /\ IF key = "custom"
                   THEN /\ custom_registry' = r.registry
                        /\ UNCHANGED <<global_decomposition_table, registrations>>
                   ELSE /\ global_decomposition_table' =
                               defaultdict_set(global_decomposition_table, key, r.registry)
                        /\ registrations' = registrations \cup
                               {[op_overload |-> op, type |-> key,
                                 disable_meta |-> disable_meta] :
                                    op \in DictKeys(r.registry) \ DictKeys(registry)}
                        /\ UNCHANGED custom_registry
                /\ last' = [call EXCEPT !.raised = r.raised, !.returned = r.returned]
                /\ meta_lib_impls' =
                       registration_impls(meta_lib_impls,
                                          SubSeq(r.registry, Len(registry) + 1,
                                                 Len(r.registry)))
    \* lines 121-161 are commented out: disable_meta is not read
    /\ UNCHANGED <<disabled_meta_decomps, py_kernels, phase,
                   activate_meta_calls, f_calls, scheduler>>

----------------------------------------------------------------------------
(* get_decompositions *)

\* registry[k]: a KeyError when k is no key
dict_lookup(registry, k) ==
    IF DictHas(registry, k)
    THEN [raised |-> "None", value |-> DictGet(registry, k)]
    ELSE [raised |-> "KeyError", value |-> None]

\* lines 188-190: packets_to_overloads[packet], the registered overloads of
\* the packet in the registry's order (empty: packet is no key of the index)
packets_to_overloads(registry, packet) ==
    LET keys == [i \in 1..Len(registry) |-> registry[i].key]
    IN  SelectSeq(keys, LAMBDA opo : overloadpacket(opo) = packet)

\* lines 194-195
RECURSIVE copy_overloads(_, _, _)
copy_overloads(decompositions, registry, ops) ==
    IF ops = <<>> THEN [decompositions |-> decompositions, raised |-> "None"]
    ELSE LET v == dict_lookup(registry, Head(ops))
         IN  IF v.raised # "None"
             THEN [decompositions |-> decompositions, raised |-> v.raised]
             ELSE copy_overloads(DictSet(decompositions, Head(ops), v.value),
                                 registry, Tail(ops))

\* faulty variant: a requested packet starts the result anew
lookup_requested_packet_resets(decompositions, registry, op) ==
    IF op.kind = "OpOverloadPacket" /\ packets_to_overloads(registry, op) # <<>>
    THEN copy_overloads(EmptyDict, registry, packets_to_overloads(registry, op))
    ELSE IF op.kind = "OpOverload" /\ DictHas(registry, op)
    THEN copy_overloads(decompositions, registry, <<op>>)
    ELSE [decompositions |-> decompositions, raised |-> "None"]

\* faulty variant: a requested overload is looked up without the membership test
lookup_requested_unchecked(decompositions, registry, op) ==
    IF op.kind = "OpOverloadPacket" /\ packets_to_overloads(registry, op) # <<>>
    THEN copy_overloads(decompositions, registry, packets_to_overloads(registry, op))
    ELSE IF op.kind = "OpOverload"
    THEN copy_overloads(decompositions, registry, <<op>>)
    ELSE [decompositions |-> decompositions, raised |-> "None"]

\* lines 193-197, one requested item
lookup_requested(decompositions, registry, op) ==
    IF op.kind = "OpOverloadPacket" /\ packets_to_overloads(registry, op) # <<>>
    THEN copy_overloads(decompositions, registry, packets_to_overloads(registry, op))
    ELSE IF op.kind = "OpOverload" /\ DictHas(registry, op)
    THEN copy_overloads(decompositions, registry, <<op>>)
    ELSE [decompositions |-> decompositions, raised |-> "None"]

\* lines 191-198
RECURSIVE collect_decompositions(_, _, _)
collect_decompositions(decompositions, registry, aten_ops) ==
    IF aten_ops = <<>> THEN [decompositions |-> decompositions, raised |-> "None"]
    ELSE LET r == lookup_requested(decompositions, registry, Head(aten_ops))
         IN  IF r.raised # "None" THEN r
             ELSE collect_decompositions(r.decompositions, registry, Tail(aten_ops))

\* faulty variant: the default table is read whatever the mode
get_decompositions_result_default_table(table, aten_ops, type) ==
    IF ~type_is_supported(type)
    THEN [decompositions |-> EmptyDict, raised |-> "AssertionError"]
    ELSE collect_decompositions(EmptyDict, table["post_autograd"], aten_ops)

\* lines 185-198: what the call returns, or what it raises
get_decompositions_result(table, aten_ops, type) ==
    IF ~type_is_supported(type)
    THEN [decompositions |-> EmptyDict, raised |-> "AssertionError"]
    ELSE collect_decompositions(EmptyDict, defaultdict_get(table, type), aten_ops)

\* faulty variant: the entries found are popped from the registry
get_decompositions_table_pops(table, aten_ops, type) ==
    IF ~type_is_supported(type) THEN table
    ELSE LET registry == defaultdict_get(table, type)
             found == DictKeys(collect_decompositions(EmptyDict, registry,
                                                      aten_ops).decompositions)
         IN  defaultdict_set(table, type,
                             SelectSeq(registry, LAMBDA e : e.key \notin found))

\* lines 185-198: the table store after the call; line 187 reads the
\* defaultdict, the loops only read the registry
get_decompositions_table(table, aten_ops, type) ==
    IF ~type_is_supported(type) THEN table
    ELSE defaultdict_set(table, type, defaultdict_get(table, type))

get_decompositions(aten_ops, type) ==
    LET r == get_decompositions_result(global_decomposition_table, aten_ops, type)
    IN  /\ last' = [NoCall EXCEPT !.op = "get_decompositions", !.type = type,
                                  !.aten_ops = aten_ops, !.raised = r.raised,
                                  !.result = IF r.raised = "None" THEN r.decompositions
                                             ELSE EmptyDict]
        /\ before' = Snapshot
        /\ global_decomposition_table' =
               get_decompositions_table(global_decomposition_table, aten_ops, type)
        /\ UNCHANGED <<custom_registry, disabled_meta_decomps, py_kernels,
                       meta_lib_impls, phase, registrations, activate_meta_calls,
                       f_calls, scheduler>>

----------------------------------------------------------------------------
(* activate_meta *)

\* faulty variant: the tables are merged in the opposite order
activation_order_reversed == <<"pre_autograd", "post_autograd", "meta">>

\* line 209: the order the tables are merged in
activation_order == <<"meta", "post_autograd", "pre_autograd">>

\* lines 212-214 for one registry, from its i-th entry on
RECURSIVE merge_registry(_, _, _)
merge_registry(activate_meta_table, registry, i) ==
    IF i > Len(registry) THEN activate_meta_table
    ELSE merge_registry(
             IF DictHas(activate_meta_table, registry[i].key) THEN activate_meta_table
             ELSE DictSet(activate_meta_table, registry[i].key, registry[i].value),
             registry, i + 1)

\* faulty variant: only the first table of the order is merged
merge_tables_first_only(activate_meta_table, table, types) ==
    IF types = <<>> THEN activate_meta_table
    ELSE merge_registry(activate_meta_table, table[Head(types)], 1)

\* lines 207-214
RECURSIVE merge_tables(_, _, _)
merge_tables(activate_meta_table, table, types) ==
    IF types = <<>> THEN activate_meta_table
    ELSE merge_tables(merge_registry(activate_meta_table, table[Head(types)], 1),
                      table, Tail(types))

\* lines 222-224
qualified_name(op_overload) ==
    IF op_overload.overload_name # ""
    THEN op_overload.name \o "." \o op_overload.overload_name
    ELSE op_overload.name

\* faulty variant: the test on is_write is inverted
is_view_op_written(op_overload) ==
    \E i \in 1..Len(schema_arguments(op_overload)) :
        /\ schema_arguments(op_overload)[i] # "None"
        /\ schema_arguments(op_overload)[i] = "write"

\* faulty variant: any alias argument counts, written through or not
is_view_op_any_alias(op_overload) ==
    \E i \in 1..Len(schema_arguments(op_overload)) :
        schema_arguments(op_overload)[i] # "None"

\* lines 241-244: some argument is an alias that is not written through
is_view_op(op_overload) ==
    \E i \in 1..Len(schema_arguments(op_overload)) :
        /\ schema_arguments(op_overload)[i] # "None"
        /\ schema_arguments(op_overload)[i] # "write"

\* meta_lib.impl(op_overload, fn): the library refuses a second binding of
\* the same operator
meta_lib_impl(impls, op_overload, fn) ==
    IF DictHas(impls, op_overload)
    THEN [impls |-> impls, raised |-> "RuntimeError"]
    ELSE [impls |-> Append(impls, [key |-> op_overload, value |-> fn]),
          raised |-> "None"]

\* faulty variant: the test for the composite marker is missing
install_decision_no_composite(op_overload) ==
    IF is_view_op(op_overload) THEN "view" ELSE "install"

\* lines 226-257: the branch taken for one overload
install_decision(op_overload) ==
    IF has_composite_marker(dispatch_dump(qualified_name(op_overload))) THEN "composite"
    ELSE IF is_view_op(op_overload) THEN "view"
    ELSE "install"

\* faulty variant: a view operator makes the pass raise instead of being
\* skipped
activate_overload_view_raises(host, op_overload, fn) ==
    IF op_overload.kind # "OpOverload"
    THEN [host EXCEPT !.raised = "AssertionError"]
    ELSE LET kernels == Append(host.py_kernels, [key |-> op_overload, value |-> fn])
         IN  IF install_decision(op_overload) = "install"
             THEN LET r == meta_lib_impl(host.meta_lib_impls, op_overload, fn)
                  IN  [py_kernels |-> kernels, meta_lib_impls |-> r.impls,
                       raised |-> r.raised]
             ELSE IF install_decision(op_overload) = "view"
             THEN [host EXCEPT !.py_kernels = kernels, !.raised = "RuntimeError"]
             ELSE [host EXCEPT !.py_kernels = kernels]

\* faulty variant: py_impl is called only for the overloads that are installed
activate_overload_py_impl_on_install(host, op_overload, fn) ==
    IF op_overload.kind # "OpOverload"
    THEN [host EXCEPT !.raised = "AssertionError"]
    ELSE IF install_decision(op_overload) = "install"
    THEN LET r == meta_lib_impl(host.meta_lib_impls, op_overload, fn)
         IN  [py_kernels |-> IF r.raised = "None"
                             THEN Append(host.py_kernels,
                                         [key |-> op_overload, value |-> fn])
                             ELSE host.py_kernels,
              meta_lib_impls |-> r.impls, raised |-> r.raised]
    ELSE host

\* lines 217-257, one turn of the loop
activate_overload(host, op_overload, fn) ==
    IF op_overload.kind # "OpOverload"
    THEN [host EXCEPT !.raised = "AssertionError"]
    ELSE LET kernels == Append(host.py_kernels, [key |-> op_overload, value |-> fn])
         IN  IF install_decision(op_overload) = "install"
             THEN LET r == meta_lib_impl(host.meta_lib_impls, op_overload, fn)
                  IN  [py_kernels |-> kernels, meta_lib_impls |-> r.impls,
                       raised |-> r.raised]
             ELSE [host EXCEPT !.py_kernels = kernels]

\* faulty variant: a raise is noted and the loop goes on
RECURSIVE activate_overloads_goes_on(_, _, _)
activate_overloads_goes_on(host, activate_meta_table, i) ==
    IF i > Len(activate_meta_table) THEN host
    ELSE LET r == activate_overload([host EXCEPT !.raised = "None"],
                                    activate_meta_table[i].key,
                                    activate_meta_table[i].value)
         IN  activate_overloads_goes_on(
                 [r EXCEPT !.raised = IF host.raised # "None" THEN host.raised
                                      ELSE r.raised],
                 activate_meta_table, i + 1)

\* lines 216-257: the loop stops at the first raise
RECURSIVE activate_overloads(_, _, _)
activate_overloads(host, activate_meta_table, i) ==
    IF i > Len(activate_meta_table) \/ host.raised # "None" THEN host
    ELSE activate_overloads(
             activate_overload(host, activate_meta_table[i].key,
                               activate_meta_table[i].value),
             activate_meta_table, i + 1)

\* lines 205-257
activate_meta_result(table, kernels, impls) ==
    activate_overloads([py_kernels |-> kernels, meta_lib_impls |-> impls,
                        raised |-> "None"],
                       merge_tables(EmptyDict, table, activation_order), 1)

\* faulty variant: the merge is made into the meta table itself
activate_meta_tables_merged_into_meta(table) ==
    [table EXCEPT !["meta"] = merge_tables(EmptyDict, table, activation_order)]

\* lines 207-214: the merge fills the local dict activate_meta_table and
\* only reads the three tables
activate_meta_tables(table) == table

\* faulty variant: the load goes on after the pass
phase_after_still_loading(raised) == "loading"

\* line 260 is the last statement of the module: once activate_meta()
\* has returned the load is complete, and a raise ends the load
phase_after(raised) == IF raised = "None" THEN "loaded" ELSE "failed"

\* line 260: the pass the module runs once, when it is loaded
activate_meta ==
    /\ phase = "loading"
    /\ LET r == activate_meta_result(global_decomposition_table, py_kernels,
                                     meta_lib_impls)
       IN  /\ py_kernels' = r.py_kernels
           /\ meta_lib_impls' = r.meta_lib_impls
           /\ phase' = phase_after(r.raised)
           /\ last' = [NoCall EXCEPT !.op = "activate_meta", !.raised = r.raised]
    /\ before' = Snapshot
    /\ activate_meta_calls' = activate_meta_calls + 1
    /\ global_decomposition_table' = activate_meta_tables(global_decomposition_table)
    /\ UNCHANGED <<custom_registry, disabled_meta_decomps, registrations, f_calls,
                   scheduler>>

----------------------------------------------------------------------------
(* The program *)

\* lines 23-33
Init ==
    /\ global_decomposition_table = [type \in Modes |-> EmptyDict]
    /\ custom_registry = EmptyDict
    /\ disabled_meta_decomps = {}
    /\ py_kernels = <<>>
    /\ meta_lib_impls = <<>>
    /\ phase = "loading"
    /\ last = NoCall
    /\ before = Snapshot
    /\ registrations = {}
    /\ activate_meta_calls = 0
    /\ f_calls = <<>>
    /\ scheduler = [constructed |-> FALSE]

\* what the calls of the load and of the consumers are made with
Targets ==
    AllOverloads
    \cup {add_packet, Container(<<view_default, Container(<<add_packet>>)>>)}

TypeArgs == Modes

Decompositions == {f1, g}

Requested ==
    {<<add_packet>>, <<add_Tensor>>, <<add_out, add_packet>>, <<view_packet, add_Scalar>>}

\* Registrations, made while the library loads and by its users afterwards,
\* go to the mode tables (registry=None) with disable_meta at its default;
\* queries may come at any time; the module runs the activation pass once.
Next ==
    \/ \E aten_op \in Targets, type \in TypeArgs, f \in Decompositions :
          /\ phase # "failed"
          /\ register_decomposition(aten_op, FALSE, type, FALSE, f)
    \/ \E aten_ops \in Requested, type \in TypeArgs :
          /\ phase # "failed"
          /\ get_decompositions(aten_ops, type)
    \/ activate_meta

Spec == Init /\ [][Next]_vars

----------------------------------------------------------------------------
(* Properties of registration *)

\* the last call was register_decomposition into the table of a valid mode
RegisteredInMode ==
    /\ last.op = "register_decomposition"
    /\ last.registry = "None"
    /\ last.type \in Modes

\* d1 == d2 for Python dicts: the same keys with the same values
DictEq(d1, d2) ==
    /\ DictKeys(d1) = DictKeys(d2)
    /\ \A k \in DictKeys(d1) : DictGet(d1, k) = DictGet(d2, k)

\* no key occurs twice in d
UniqueKeys(d) == \A i, j \in 1..Len(d) : d[i].key = d[j].key => i = j

\* the overloads of a packet, as a set
Members(packet) == {getattr(packet, overloads(packet)[i]) : i \in 1..Len(overloads(packet))}

\* registry after registering the overloads ops one call at a time with f
RECURSIVE register_each(_, _, _)
register_each(registry, ops, f) ==
    IF ops = <<>> THEN registry
    ELSE register_each(decomposition_decorator(registry, Head(ops), f).registry,
                       Tail(ops), f)

\* the orders the overloads of S can be registered in
Orders(S) ==
    {ops \in [1..Cardinality(S) -> S] : \A i, j \in 1..Cardinality(S) : ops[i] = ops[j] => i = j}

\* C1: registering an Overload that is already in the mode's table raises
\* the duplicate-registration error whatever the callable, leaves every
\* table exactly as it was, and a retry with any callable fails again.
C1_DuplicateRegistrationFails ==
    (/\ RegisteredInMode
     /\ last.aten_op.kind = "OpOverload"
     /\ DictHas(before.table[last.type], last.aten_op))
    => /\ last.raised = "RuntimeError"
       /\ last.returned = None
       /\ global_decomposition_table = before.table
       /\ \A f \in Decompositions :
              decomposition_decorator(global_decomposition_table[last.type],
                                      last.aten_op, f).raised = "RuntimeError"

\* a duplicate registration with another callable than the registered one
C1_Witness ==
    /\ RegisteredInMode
    /\ last.aten_op.kind = "OpOverload"
    /\ DictHas(before.table[last.type], last.aten_op)
    /\ DictGet(before.table[last.type], last.aten_op) # adapted(last.f)
    /\ last.raised = "RuntimeError"

\* C2: every table holds each Overload at most once, and an entry that was in
\* a table when a call (register, query or activation) began is still there
\* with the same callable when the call is over.
C2_EntriesAreNeverReplaced ==
    \A type \in Modes :
        /\ UniqueKeys(global_decomposition_table[type])
        /\ \A op \in DictKeys(before.table[type]) :
               /\ DictHas(global_decomposition_table[type], op)
               /\ DictGet(global_decomposition_table[type], op)
                      = DictGet(before.table[type], op)

\* after the activation pass, a registration of a registered Overload with
\* another callable
C2_Witness ==
    /\ phase = "loaded"
    /\ C1_Witness
    /\ \E i \in 1..Len(py_kernels) : py_kernels[i].key = last.aten_op

C4_FamilyRegistration ==
    (/\ RegisteredInMode
     /\ last.aten_op.kind = "OpOverloadPacket"
     /\ \A op \in Members(last.aten_op) : ~DictHas(before.table[last.type], op))
    => /\ last.raised = "None"
       /\ \A ops \in Orders(Members(last.aten_op)) :
              DictEq(global_decomposition_table[last.type],
                     register_each(before.table[last.type], ops, last.f))
       /\ \A op \in Members(last.aten_op) :
              /\ DictHas(global_decomposition_table[last.type], op)
              /\ DictGet(global_decomposition_table[last.type], op) = adapted(last.f)
       /\ DictKeys(get_decompositions_result(global_decomposition_table,
                                             <<last.aten_op>>, last.type).decompositions)
              = Members(last.aten_op)

\* a Family of three overloads registered into a table that holds another
\* operator
C4_Witness ==
    /\ RegisteredInMode
    /\ last.aten_op.kind = "OpOverloadPacket"
    /\ Cardinality(Members(last.aten_op)) = 3
    /\ before.table[last.type] # EmptyDict
    /\ last.raised = "None"
    /\ Len(global_decomposition_table[last.type]) = Len(before.table[last.type]) + 3

----------------------------------------------------------------------------
(* Properties of the query *)

\* the last call was get_decompositions with a valid mode
Queried ==
    /\ last.op = "get_decompositions"
    /\ last.type \in Modes

\* the requested items, as a set
RequestedItems == {last.aten_ops[i] : i \in 1..Len(last.aten_ops)}

\* C5: get_decompositions returns exactly the entries of the mode's table
\* whose Overload is requested itself or belongs to a requested Family, each
\* with the callable the table holds; nothing of another table is returned.
C5_QueryResultIsExact ==
    (Queried /\ last.raised = "None") =>
        /\ UniqueKeys(last.result)
        /\ DictKeys(last.result) =
               {op \in DictKeys(global_decomposition_table[last.type]) :
                    op \in RequestedItems \/ overloadpacket(op) \in RequestedItems}
        /\ \A op \in DictKeys(last.result) :
               DictGet(last.result, op)
                   = DictGet(global_decomposition_table[last.type], op)

\* a Family is requested of which two overloads of three are registered
C5_Witness ==
    /\ Queried
    /\ last.aten_ops = <<add_packet>>
    /\ DictKeys(global_decomposition_table[last.type]) = {add_Tensor, add_Scalar}
    /\ DictKeys(last.result) = {add_Tensor, add_Scalar}

\* C6: get_decompositions does not raise on a missing entry: a requested
\* Overload that is not in the table, and a requested Family of which no
\* overload is in the table, contribute no key to the result.
C6_MissingEntriesAreSkipped ==
    Queried =>
        /\ last.raised = "None"
        /\ \A op \in RequestedItems :
               /\ (/\ op.kind = "OpOverload"
                   /\ ~DictHas(global_decomposition_table[last.type], op))
                  => ~DictHas(last.result, op)
               /\ (/\ op.kind = "OpOverloadPacket"
                   /\ \A m \in Members(op) :
                          ~DictHas(global_decomposition_table[last.type], m))
                  => \A m \in Members(op) : ~DictHas(last.result, m)

\* a request with an Overload that is not registered beside one that is
C6_Witness ==
    /\ Queried
    /\ last.raised = "None"
    /\ last.result # EmptyDict
    /\ \E op \in RequestedItems :
           /\ op.kind = "OpOverload"
           /\ ~DictHas(global_decomposition_table[last.type], op)
           /\ \E m2 \in Modes : DictHas(global_decomposition_table[m2], op)

----------------------------------------------------------------------------
(* Properties of the activation pass *)

\* the last call was the activation pass: the tables are what it read
Activated == last.op = "activate_meta"

\* the callable of op in the table of highest priority that holds op
Preferred(op) ==
    IF DictHas(global_decomposition_table["meta"], op)
    THEN DictGet(global_decomposition_table["meta"], op)
    ELSE IF DictHas(global_decomposition_table["post_autograd"], op)
    THEN DictGet(global_decomposition_table["post_autograd"], op)
    ELSE DictGet(global_decomposition_table["pre_autograd"], op)

InSomeTable(op) == \E type \in Modes : DictHas(global_decomposition_table[type], op)

\* the dump of op's registrations shows a composite-implicit-autograd key
IsComposite(op) ==
    \E key \in dispatch_dump(qualified_name(op)) :
        key \in {"CompositeImplicitAutograd", "CompositeImplicitAutogradNestedTensor"}

\* op has an argument that is an alias and not a write alias
HasReadOnlyAlias(op) ==
    \E i \in 1..Len(schema_arguments(op)) : schema_arguments(op)[i] = "read"

\* the calls in a log that were made for op
CallsFor(log, op) == {i \in 1..Len(log) : log[i].key = op}

\* C7: the callable the activation pass uses for an Overload is the one of
\* the table of highest priority that holds it, meta before post_autograd
\* before pre_autograd.
C7_ActivationPrecedence ==
    Activated =>
        /\ \A op \in AllOverloads : InSomeTable(op) => CallsFor(py_kernels, op) # {}
        /\ \A i \in 1..Len(py_kernels) :
               py_kernels[i].value = Preferred(py_kernels[i].key)
        /\ \A i \in 1..Len(meta_lib_impls) :
               meta_lib_impls[i].value = Preferred(meta_lib_impls[i].key)

\* an Overload held by meta and by post_autograd with different callables
C7_Witness ==
    /\ Activated
    /\ \E op \in AllOverloads :
           /\ DictHas(global_decomposition_table["meta"], op)
           /\ DictHas(global_decomposition_table["post_autograd"], op)
           /\ DictGet(global_decomposition_table["meta"], op)
                  # DictGet(global_decomposition_table["post_autograd"], op)
           /\ CallsFor(meta_lib_impls, op) # {}

\* C8: meta_lib.impl is never called for an Overload whose dispatch dump
\* shows a composite-implicit-autograd key, also when the meta table holds
\* it, and a pass that skips such an Overload ends without an error.
C8_CompositeIsNotInstalled ==
    /\ \A i \in 1..Len(meta_lib_impls) : ~IsComposite(meta_lib_impls[i].key)
    /\ (Activated /\ \E op \in AllOverloads : InSomeTable(op) /\ IsComposite(op))
       => (last.raised = "None" /\ phase = "loaded")

\* the pass has run with a composite Overload in the meta table
C8_Witness ==
    /\ Activated
    /\ \E op \in AllOverloads :
           /\ IsComposite(op)
           /\ DictHas(global_decomposition_table["meta"], op)
           /\ CallsFor(py_kernels, op) # {}
           /\ CallsFor(meta_lib_impls, op) = {}

\* C9: meta_lib.impl is never called for an Overload with an argument that
\* is a read-only alias, and a pass that skips such an Overload ends without
\* an error.
C9_ViewIsNotInstalled ==
    /\ \A i \in 1..Len(meta_lib_impls) : ~HasReadOnlyAlias(meta_lib_impls[i].key)
    /\ (Activated /\ \E op \in AllOverloads : InSomeTable(op) /\ HasReadOnlyAlias(op))
       => (last.raised = "None" /\ phase = "loaded")

\* the pass has run with a view Overload registered
C9_Witness ==
    /\ Activated
    /\ \E op \in AllOverloads :
           /\ HasReadOnlyAlias(op)
           /\ ~IsComposite(op)
           /\ InSomeTable(op)
           /\ CallsFor(py_kernels, op) # {}
           /\ CallsFor(meta_lib_impls, op) = {}

\* C10: one activation pass calls meta_lib.impl exactly once, with the
\* callable of highest priority, for every Overload that some table holds
\* and that neither exclusion rule hits, and never for another Overload.
C10_InstalledExactlyOnce ==
    Activated =>
        /\ \A i \in 1..Len(meta_lib_impls) : meta_lib_impls[i].key \in AllOverloads
        /\ \A op \in AllOverloads :
               IF InSomeTable(op) /\ ~IsComposite(op) /\ ~HasReadOnlyAlias(op)
               THEN /\ Cardinality(CallsFor(meta_lib_impls, op)) = 1
                    /\ \A i \in CallsFor(meta_lib_impls, op) :
                           meta_lib_impls[i].value = Preferred(op)
               ELSE CallsFor(meta_lib_impls, op) = {}

\* add.Tensor in post_autograd with one callable and in meta with another:
\* one install, with the callable of meta
C10_Witness ==
    /\ Activated
    /\ DictHas(global_decomposition_table["post_autograd"], add_Tensor)
    /\ DictHas(global_decomposition_table["meta"], add_Tensor)
    /\ DictGet(global_decomposition_table["post_autograd"], add_Tensor)
           # DictGet(global_decomposition_table["meta"], add_Tensor)
    /\ meta_lib_impls =
           <<[key |-> add_Tensor,
              value |-> DictGet(global_decomposition_table["meta"], add_Tensor)]>>

----------------------------------------------------------------------------
(* Registrations made with disable_meta *)

TargetsDisableMeta == {add_Tensor, view_default, add_packet}

TypeArgsDisableMeta == {"post_autograd", "meta"}

\* registrations with either value of disable_meta, then the activation pass
NextDisableMeta ==
    \/ \E aten_op \in TargetsDisableMeta, type \in TypeArgsDisableMeta,
          disable_meta \in BOOLEAN :
          /\ phase # "failed"
          /\ register_decomposition(aten_op, FALSE, type, disable_meta, f1)
    \/ \E type \in TypeArgsDisableMeta :
          /\ phase # "failed"
          /\ get_decompositions(<<add_packet>>, type)
    \/ activate_meta

SpecDisableMeta == Init /\ [][NextDisableMeta]_vars

\* the overloads the leaves of aten_op stand for
Expanded(aten_op) ==
    UNION {{leaf_overloads(tree_leaves(aten_op)[i])[j] :
                j \in 1..Len(leaf_overloads(tree_leaves(aten_op)[i]))} :
           i \in 1..Len(tree_leaves(aten_op))}

\* C11: a successful register call with disable_meta set adds every expanded
\* Overload of the target to the Disabled-Meta Set, and a call without
\* disable_meta adds none.
C11_DisableMetaFillsDisabledSet ==
    (RegisteredInMode /\ last.raised = "None")
    => disabled_meta_decomps =
           before.disabled
           \cup (IF last.disable_meta THEN Expanded(last.aten_op) ELSE {})

\* the overloads all of whose registrations were made with disable_meta
OnlyDisabled ==
    {op \in AllOverloads :
        /\ \E r \in registrations : r.op_overload = op
        /\ \A r \in registrations : r.op_overload = op => r.disable_meta}

\* C12: an Overload whose only registrations were made with
\* disable_meta=True is never installed as a Meta implementation by the
\* activation pass; registered without disable_meta and not excluded, it is
\* installed.
C12_DisableMetaIsNotInstalled ==
    Activated =>
        \A op \in AllOverloads :
            /\ op \in OnlyDisabled => CallsFor(meta_lib_impls, op) = {}
            /\ (/\ \E r \in registrations : r.op_overload = op /\ ~r.disable_meta
                /\ ~IsComposite(op)
                /\ ~HasReadOnlyAlias(op))
               => CallsFor(meta_lib_impls, op) # {}

----------------------------------------------------------------------------
(* Calls with a mode that is not supported *)

TargetsModes == {add_Tensor, add_packet}

TypeArgsModes == {"post_autograd", "meta", "forward"}

RequestedModes == {<<add_packet>>, <<add_Tensor>>}

\* calls with supported and unsupported modes, into the mode tables and into
\* a registry of the caller
NextModes ==
    \/ \E aten_op \in TargetsModes, use_registry \in BOOLEAN, type \in TypeArgsModes :
          /\ phase # "failed"
          /\ register_decomposition(aten_op, use_registry, type, FALSE, f1)
    \/ \E aten_ops \in RequestedModes, type \in TypeArgsModes :
          /\ phase # "failed"
          /\ get_decompositions(aten_ops, type)
    \/ activate_meta

SpecModes == Init /\ [][NextModes]_vars

\* C13: register and get_decompositions called with a mode outside
\* {pre_autograd, post_autograd, meta} raise at once; afterwards no table is
\* modified and no table for the invalid mode has come into existence.
C13_UnsupportedModeRaises ==
    (/\ last.op \in {"register_decomposition", "get_decompositions"}
     /\ last.type \notin {"pre_autograd", "post_autograd", "meta"})
    => /\ last.raised = "AssertionError"
       /\ last.returned = None
       /\ last.result = EmptyDict
       /\ DOMAIN global_decomposition_table = {"pre_autograd", "post_autograd", "meta"}
       /\ global_decomposition_table = before.table
       /\ custom_registry = before.custom
       /\ disabled_meta_decomps = before.disabled

\* a registration with the mode "forward" while the tables hold entries
C13_Witness ==
    /\ last.op = "register_decomposition"
    /\ last.type = "forward"
    /\ last.raised = "AssertionError"
    /\ TotalEntries > 0
    /\ before.table = global_decomposition_table

----------------------------------------------------------------------------
(* The wrapper _fn around a callable whose out is a tuple *)

MaxArgs == 1

\* the values a caller passes; "None" is Python's None
Values == {"None", "X", "Y"}

\* the positional arguments of a call
Args == UNION {[1..n -> {"a"}] : n \in 0..MaxArgs}

\* kwargs.pop(o, None): the value popped
kwargs_pop_value(kwargs, o) == IF o \in DOMAIN kwargs THEN kwargs[o] ELSE "None"

\* kwargs once the names in popped have been popped
kwargs_popped(kwargs, popped) == [k \in DOMAIN kwargs \ popped |-> kwargs[k]]

\* line 74
out_kwargs_of(f, kwargs) ==
    [i \in 1..Len(out_names(f)) |-> kwargs_pop_value(kwargs, out_names(f)[i])]

\* faulty variant: the assertion is missing
all_or_none_unchecked(out_kwargs) == TRUE

\* lines 76-77: either all of the out kwargs are set or none of them
all_or_none(out_kwargs) ==
    LET is_none == out_kwargs[1] = "None"
    IN  \A i \in 1..Len(out_kwargs) : (out_kwargs[i] = "None") = is_none

\* faulty variant: out is the tuple even when no slot is set
out_argument_always_tuple(out_kwargs) ==
    [is_none |-> FALSE, items |-> out_kwargs]

\* line 78: out=None if is_none else out_kwargs
out_argument(out_kwargs) ==
    IF out_kwargs[1] = "None" THEN [is_none |-> TRUE, items |-> <<>>]
    ELSE [is_none |-> FALSE, items |-> out_kwargs]

\* f(*args, **kwargs, out=out): Python refuses a keyword given twice
call_with_out(f, args, kwargs, out) ==
    IF "out" \in DOMAIN kwargs
    THEN [raised |-> "TypeError", calls |-> <<>>]
    ELSE [raised |-> "None",
          calls  |-> <<[f |-> f.name, args |-> args, kwargs |-> kwargs, out |-> out]>>]

\* lines 73-78
_fn(f, args, kwargs) ==
    LET out_kwargs == out_kwargs_of(f, kwargs)
        rest == kwargs_popped(kwargs, {out_names(f)[i] : i \in 1..Len(out_names(f))})
    IN  IF out_kwargs = <<>> THEN [raised |-> "IndexError", calls |-> <<>>]
        ELSE IF ~all_or_none(out_kwargs)
        THEN [raised |-> "AssertionError", calls |-> <<>>]
        ELSE call_with_out(f, args, rest, out_argument(out_kwargs))

\* a call of f itself, the callable registered when out is not a tuple
call_unwrapped(f, args, kwargs) ==
    [raised |-> "None",
     calls  |-> <<[f |-> f.name, args |-> args,
                   kwargs |-> kwargs_popped(kwargs, {"out"}),
                   out |-> IF kwargs_pop_value(kwargs, "out") = "None"
                           THEN [is_none |-> TRUE, items |-> <<>>]
                           ELSE [is_none |-> FALSE, items |-> <<kwargs["out"]>>]]>>]

\* a consumer calls fn, a callable it got from register_decomposition or from
\* a table
call_decomposition(fn, args, kwargs) ==
    LET f == [fn EXCEPT !.wrapper = FALSE]
        r == IF fn.wrapper THEN _fn(f, args, kwargs) ELSE call_unwrapped(f, args, kwargs)
    IN  /\ f_calls' = r.calls
        /\ last' = [NoCall EXCEPT !.op = "call", !.f = fn, !.args = args,
                                  !.kwargs = kwargs, !.raised = r.raised]
        /\ before' = Snapshot
        /\ UNCHANGED <<global_decomposition_table, custom_registry,
                       disabled_meta_decomps, py_kernels, meta_lib_impls, phase,
                       registrations, activate_meta_calls, scheduler>>

DecompositionsWrapper == {f1, g, h}

\* the keywords a caller may pass to fn: its slots, one more keyword and out
KwargNames(fn) ==
    {out_names([fn EXCEPT !.wrapper = FALSE])[i] :
        i \in 1..Len(out_names([fn EXCEPT !.wrapper = FALSE]))}
    \cup {"alpha", "out"}

\* the slots take any value, None included; alpha and out, when passed, are X
KwargsOf(fn) ==
    {kwargs \in UNION {[D -> Values] : D \in SUBSET KwargNames(fn)} :
        \A k \in DOMAIN kwargs \cap {"alpha", "out"} : kwargs[k] = "X"}

\* the callables the post_autograd table holds
Registered ==
    {global_decomposition_table["post_autograd"][i].value :
        i \in 1..Len(global_decomposition_table["post_autograd"])}

\* one callable is registered, then consumers call it
NextWrapper ==
    \/ \E f \in DecompositionsWrapper :
          /\ phase # "failed"
          /\ register_decomposition(add_Tensor, FALSE, "post_autograd", FALSE, f)
    \/ \E fn \in Registered, args \in Args :
          \E kwargs \in KwargsOf(fn) :
              /\ phase # "failed"
              /\ call_decomposition(fn, args, kwargs)
    \/ activate_meta

SpecWrapper == Init /\ [][NextWrapper]_vars

\* the last call was a call of the wrapper of a callable with a tuple out
CalledWrapper == last.op = "call" /\ last.f.wrapper

\* the slots of the wrapper called
Slots == out_names([last.f EXCEPT !.wrapper = FALSE])

\* the slots the caller has set
SetSlots ==
    {i \in 1..Len(Slots) : kwargs_pop_value(last.kwargs, Slots[i]) # "None"}

\* C14: the wrapper called with a strict, non-empty subset of the output
\* slots set, whichever slot it is, raises before the original body is
\* invoked.
C14_AllOrNoneOutputSlots ==
    (CalledWrapper /\ SetSlots # {} /\ SetSlots # 1..Len(Slots))
    => /\ last.raised = "AssertionError"
       /\ f_calls = <<>>

\* only the last slot of three is set
C14_Witness ==
    /\ CalledWrapper
    /\ Len(Slots) = 3
    /\ SetSlots = {3}
    /\ last.raised = "AssertionError"

\* the keywords of the last call that are not slots
OtherKwargs ==
    [k \in DOMAIN last.kwargs \ {Slots[i] : i \in 1..Len(Slots)} |-> last.kwargs[k]]

\* C15: the wrapper called with no slot set calls the original body exactly
\* once with out=None; called with every slot set it calls the body exactly
\* once with out the tuple of the slot values in field order; the other
\* positional and keyword arguments are passed through unchanged. (The
\* wrapper's signature has no out parameter: the calls are those that pass
\* no keyword out.)
C15_OutputAdaptationRoundTrip ==
    (CalledWrapper /\ "out" \notin DOMAIN last.kwargs)
    => /\ SetSlots = {} =>
              /\ last.raised = "None"
              /\ f_calls = <<[f |-> last.f.name, args |-> last.args,
                              kwargs |-> OtherKwargs,
                              out |-> [is_none |-> TRUE, items |-> <<>>]]>>
       /\ SetSlots = 1..Len(Slots) =>
              /\ last.raised = "None"
              /\ f_calls = <<[f |-> last.f.name, args |-> last.args,
                              kwargs |-> OtherKwargs,
                              out |-> [is_none |-> FALSE,
                                       items |-> [i \in 1..Len(Slots) |->
                                                     last.kwargs[Slots[i]]]]]>>

\* g called as g(a, sum=X, count=Y, alpha=X)
C15_Witness ==
    /\ CalledWrapper
    /\ last.f.name = "g"
    /\ last.args = <<"a">>
    /\ last.kwargs = [k \in {"sum", "count", "alpha"} |->
                         IF k = "count" THEN "Y" ELSE "X"]
    /\ f_calls = <<[f |-> "g", args |-> <<"a">>,
                    kwargs |-> [k \in {"alpha"} |-> "X"],
                    out |-> [is_none |-> FALSE, items |-> <<"X", "Y">>]]>>

----------------------------------------------------------------------------
(* The callable a registration returns *)

\* C16: a successful register call returns the very callable it inserted
\* into the destination table for every expanded Overload: the wrapper when
\* out is a tuple, otherwise the original callable.
C16_ReturnsTheInsertedCallable ==
    (RegisteredInMode /\ last.raised = "None")
    => /\ last.returned =
              (IF last.f.out_annotation = "Tuple"
               THEN [name |-> last.f.name, out_annotation |-> "Tuple", wrapper |-> TRUE]
               ELSE last.f)
       /\ \A op \in Expanded(last.aten_op) :
              /\ DictHas(global_decomposition_table[last.type], op)
              /\ DictGet(global_decomposition_table[last.type], op) = last.returned

\* a family registered with a callable whose out is a tuple
C16_Witness ==
    /\ RegisteredInMode
    /\ last.raised = "None"
    /\ last.aten_op = add_packet
    /\ last.f = g
    /\ last.returned.wrapper
    /\ DictGet(global_decomposition_table[last.type], add_out) = last.returned

----------------------------------------------------------------------------
(* Registrations of nested containers *)

TargetsNested ==
    {Container(<<>>),
     Container(<<add_Tensor, Container(<<view_default>>)>>),
     Mapping(<<add_packet, Container(<<view_default>>)>>),
     Container(<<Mapping(<<Container(<<add_Scalar>>)>>), add_Tensor>>),
     Container(<<Container(<<Mapping(<<add_out>>)>>)>>),
     Container(<<add_Tensor, Mapping(<<add_packet>>)>>)}

TypeArgsNested == {"post_autograd", "meta"}

\* registrations of lists and dicts of operators, nested in each other
NextNested ==
    \/ \E aten_op \in TargetsNested, type \in TypeArgsNested, f \in Decompositions :
          /\ phase # "failed"
          /\ register_decomposition(aten_op, FALSE, type, FALSE, f)
    \/ \E type \in TypeArgsNested :
          /\ phase # "failed"
          /\ get_decompositions(<<add_packet, view_packet>>, type)
    \/ activate_meta

SpecNested == Init /\ [][NextNested]_vars

\* the Overloads a target stands for, whatever its nesting
RECURSIVE ExpansionOf(_)
ExpansionOf(x) ==
    IF x.kind = "OpOverload" THEN {x}
    ELSE IF x.kind = "OpOverloadPacket" THEN Members(x)
    ELSE UNION {ExpansionOf(x.items[i]) : i \in 1..Len(x.items)}

\* how many Overloads a target stands for, counted with repetitions
RECURSIVE ExpansionCount(_)
ExpansionCount(x) ==
    IF x.kind = "OpOverload" THEN 1
    ELSE IF x.kind = "OpOverloadPacket" THEN Cardinality(Members(x))
    ELSE IF x.items = <<>> THEN 0
    ELSE ExpansionCount(Head(x.items))
         + ExpansionCount([x EXCEPT !.items = Tail(x.items)])

\* the last call registered a container whose expanded Overloads are
\* pairwise distinct and absent from the destination table
RegisteredFreshContainer ==
    /\ RegisteredInMode
    /\ last.aten_op.kind \in {"list", "dict"}
    /\ ExpansionCount(last.aten_op) = Cardinality(ExpansionOf(last.aten_op))
    /\ ExpansionOf(last.aten_op) \cap DictKeys(before.table[last.type]) = {}

\* C17: registering a nested container of Overloads and Families whose
\* expanded Overloads are pairwise distinct and absent from the destination
\* table succeeds; the table gains exactly the union of the expansions of
\* the leaves, each mapped to the callable, and nothing else changes.
C17_NestedContainerRegistration ==
    RegisteredFreshContainer
    => /\ last.raised = "None"
       /\ DictKeys(global_decomposition_table[last.type])
              = DictKeys(before.table[last.type]) \cup ExpansionOf(last.aten_op)
       /\ UniqueKeys(global_decomposition_table[last.type])
       /\ \A op \in ExpansionOf(last.aten_op) :
              DictGet(global_decomposition_table[last.type], op)
                  = [last.f EXCEPT !.wrapper = last.f.out_annotation = "Tuple"]
       /\ \A op \in DictKeys(before.table[last.type]) :
              DictGet(global_decomposition_table[last.type], op)
                  = DictGet(before.table[last.type], op)
       /\ \A type \in Modes \ {last.type} :
              global_decomposition_table[type] = before.table[type]

\* a dict holding a family and a list, registered into a table that already
\* holds an entry of another operator
C17_Witness ==
    /\ RegisteredFreshContainer
    /\ last.aten_op = Container(<<Mapping(<<Container(<<add_Scalar>>)>>), add_Tensor>>)
    /\ before.table[last.type] # EmptyDict
    /\ last.raised = "None"
    /\ DictKeys(global_decomposition_table[last.type])
           = DictKeys(before.table[last.type]) \cup {add_Scalar, add_Tensor}

----------------------------------------------------------------------------
(* The query reads only *)

\* C18: get_decompositions with a valid mode leaves the three mode tables
\* and the Disabled-Meta Set unchanged, so every query, however the queries
\* are interleaved, returns what it returns when run alone on the tables.
C18_QueryIsReadOnly ==
    Queried
    => /\ global_decomposition_table = before.table
       /\ DOMAIN global_decomposition_table = {"pre_autograd", "post_autograd", "meta"}
       /\ custom_registry = before.custom
       /\ disabled_meta_decomps = before.disabled
       /\ meta_lib_impls = before.impls
       /\ py_kernels = before.kernels
       /\ phase = before.phase
       /\ last.raised = "None"
       /\ last.result =
              get_decompositions_result(global_decomposition_table, last.aten_ops,
                                        last.type).decompositions

\* a query after the load that finds entries
C18_Witness ==
    /\ Queried
    /\ phase = "loaded"
    /\ last.aten_ops = <<add_out, add_packet>>
    /\ Len(last.result) = 3
    /\ global_decomposition_table = before.table

----------------------------------------------------------------------------
(* The load of the module *)

TargetsLoad == {add_Tensor, add_Scalar, view_default}

TypeArgsLoad == {"post_autograd", "meta"}

\* the imports of lines 202-203 register, line 260 runs the pass, users
\* register and query afterwards
NextLoad ==
    \/ \E aten_op \in TargetsLoad, type \in TypeArgsLoad :
          /\ phase # "failed"
          /\ register_decomposition(aten_op, FALSE, type, FALSE, f1)
    \/ \E type \in TypeArgsLoad :
          /\ phase # "failed"
          /\ get_decompositions(<<add_packet>>, type)
    \/ activate_meta

\* the module's top-level code is a straight line that ends in line 260:
\* the load does not stop before the pass
SpecLoad == Init /\ [][NextLoad]_vars /\ WF_vars(activate_meta)

\* the pass has run once the load is over and not before; a registration of
\* the load is made before the pass; the pass sees every entry of the load
PassFollowsLoad ==
    /\ activate_meta_calls = (IF phase = "loading" THEN 0 ELSE 1)
    /\ (last.op = "register_decomposition" /\ before.phase = "loading")
           => activate_meta_calls = 0
    /\ Activated
           => /\ before.phase = "loading"
              /\ global_decomposition_table = before.table
              /\ last.raised = "None"
              /\ \A type \in Modes :
                     \A op \in DictKeys(before.table[type]) :
                         Cardinality(CallsFor(py_kernels, op)) = 1

\* C19: during the load the activation pass runs exactly once, after every
\* registration of the load: no registration of the load follows the start
\* of the pass, and the pass sees every entry the load has made.
C19_PassRunsOnceAfterLoad ==
    []PassFollowsLoad /\ <>(activate_meta_calls = 1)

\* the pass has run over tables that the load has filled
C19_Witness ==
    /\ Activated
    /\ activate_meta_calls = 1
    /\ TotalEntries >= 2
    /\ Len(py_kernels) >= 1
    /\ phase = "loaded"

----------------------------------------------------------------------------
(* The pass on a host that holds bindings already *)

\* the Meta bindings the host may hold before the module is loaded
PriorImpls ==
    {<<>>,
     <<[key |-> add_Tensor, value |-> None]>>,
     <<[key |-> add_Scalar, value |-> None]>>,
     <<[key |-> view_default, value |-> None], [key |-> add_out, value |-> None]>>}

InitConflict ==
    /\ global_decomposition_table = [type \in Modes |-> EmptyDict]
    /\ custom_registry = EmptyDict
    /\ disabled_meta_decomps = {}
    /\ py_kernels = <<>>
    /\ meta_lib_impls \in PriorImpls
    /\ phase = "loading"
    /\ last = NoCall
    /\ before = Snapshot
    /\ registrations = {}
    /\ activate_meta_calls = 0
    /\ f_calls = <<>>
    /\ scheduler = [constructed |-> FALSE]

TargetsConflict == {add_Tensor, add_Scalar, view_default, add_packet}

TypeArgsConflict == {"post_autograd", "meta"}

NextConflict ==
    \/ \E aten_op \in TargetsConflict, type \in TypeArgsConflict :
          /\ phase # "failed"
          /\ register_decomposition(aten_op, FALSE, type, FALSE, f1)
    \/ \E type \in TypeArgsConflict :
          /\ phase # "failed"
          /\ get_decompositions(<<add_packet>>, type)
    \/ activate_meta

SpecConflict == InitConflict /\ [][NextConflict]_vars

\* the Overloads the pass asks the host to install
ToInstall ==
    {op \in AllOverloads :
        /\ \E type \in Modes : DictHas(before.table[type], op)
        /\ ~IsComposite(op)
        /\ ~HasReadOnlyAlias(op)}

\* the host accepts every install the pass asks for
HostAcceptsAll == ToInstall \cap DictKeys(before.impls) = {}

\* C20: if the host accepts every install, the activation pass ends
\* without raising whatever the three tables hold: every merged Overload
\* is processed and both exclusion rules skip silently.
C20_PassDoesNotRaise ==
    (Activated /\ HostAcceptsAll)
    => /\ last.raised = "None"
       /\ phase = "loaded"
       /\ \A op \in AllOverloads :
              (\E type \in Modes : DictHas(before.table[type], op))
              => Cardinality(CallsFor(py_kernels, op)) = 1
       /\ DictKeys(meta_lib_impls) = DictKeys(before.impls) \cup ToInstall

\* the tables hold a composite operator, a view operator and one to
\* install; the host holds bindings for the two that are skipped
C20_Witness ==
    /\ Activated
    /\ HostAcceptsAll
    /\ before.impls # <<>>
    /\ \E op \in AllOverloads :
           IsComposite(op) /\ DictHas(before.table["meta"], op)
    /\ \E op \in AllOverloads :
           HasReadOnlyAlias(op) /\ DictHas(before.table["post_autograd"], op)
    /\ ToInstall # {}
    /\ last.raised = "None"

----------------------------------------------------------------------------
(* The pass on a host that rejects an install *)

\* the merged map the pass walks through
MergedBefore == merge_tables(EmptyDict, before.table, activation_order)

\* the places in the merged map of the Overloads the host rejects
Rejected ==
    {i \in 1..Len(MergedBefore) :
        MergedBefore[i].key \in ToInstall \cap DictKeys(before.impls)}

FirstRejected == CHOOSE i \in Rejected : \A j \in Rejected : i <= j

\* C21: if the host rejects an install during activation, the error leaves
\* the pass uncaught and the pass stops: no Overload later in the merged map
\* is installed after the rejection.
C21_RejectedInstallStopsThePass ==
    (Activated /\ Rejected # {})
    => /\ last.raised = "RuntimeError"
       /\ phase = "failed"
       /\ meta_lib_impls =
              before.impls
              \o SelectSeq(SubSeq(MergedBefore, 1, FirstRejected - 1),
                           LAMBDA e : e.key \in ToInstall)
       /\ py_kernels = before.kernels \o SubSeq(MergedBefore, 1, FirstRejected)

\* the host rejects add.Tensor; add.out, later in the merged map, is one
\* the pass would have installed
C21_Witness ==
    /\ Activated
    /\ Rejected # {}
    /\ last.raised = "RuntimeError"
    /\ \E i \in 1..Len(MergedBefore) :
           /\ i > FirstRejected
           /\ MergedBefore[i].key \in ToInstall
           /\ ~DictHas(meta_lib_impls, MergedBefore[i].key)

----------------------------------------------------------------------------
(* A registration that fails part of the way *)

\* C22: a register call whose target is a Family or a nested container, and
\* one of whose expanded Overloads is already in the destination table or is
\* reached twice within the target, raises the duplicate error and leaves
\* the destination table exactly as it was before the call.
C22_FailedRegistrationIsAtomic ==
    (/\ RegisteredInMode
     /\ last.aten_op.kind # "OpOverload"
     /\ \/ ExpansionOf(last.aten_op) \cap DictKeys(before.table[last.type]) # {}
        \/ ExpansionCount(last.aten_op) # Cardinality(ExpansionOf(last.aten_op)))
    => /\ last.raised = "RuntimeError"
       /\ global_decomposition_table = before.table

----------------------------------------------------------------------------
(* Operators that write through their aliases *)

\* op has alias arguments and writes through each of them
HasOnlyWriteAliases(op) ==
    /\ \E i \in 1..Len(schema_arguments(op)) : schema_arguments(op)[i] = "write"
    /\ \A i \in 1..Len(schema_arguments(op)) :
           schema_arguments(op)[i] \in {"None", "write"}

\* C23: an Overload without composite marker whose alias arguments are all
\* write aliases (an in-place or out= operator) is not excluded: the pass
\* installs its callable through meta_lib.impl.
C23_WriteAliasIsInstalled ==
    (Activated /\ last.raised = "None")
    => \A op \in AllOverloads :
           (InSomeTable(op) /\ ~IsComposite(op) /\ HasOnlyWriteAliases(op))
           => /\ Cardinality(CallsFor(meta_lib_impls, op)) = 1
              /\ \A i \in CallsFor(meta_lib_impls, op) :
                     meta_lib_impls[i].value = Preferred(op)

\* add.out, whose out argument is a write alias, has been installed
C23_Witness ==
    /\ Activated
    /\ last.raised = "None"
    /\ InSomeTable(add_out)
    /\ HasOnlyWriteAliases(add_out)
    /\ CallsFor(meta_lib_impls, add_out) # {}

----------------------------------------------------------------------------
(* The py_impl hook *)

\* how far into the merged map the pass gets
Processed == IF Rejected = {} THEN Len(MergedBefore) ELSE FirstRejected

\* C24: for every Overload of the merged map, the skipped ones included,
\* the pass binds the selected callable through the Overload's py_impl hook
\* before it evaluates the exclusion rules; the rules suppress only the
\* install through meta_lib.impl.
C24_PyImplForEveryMergedOverload ==
    Activated
    => /\ Len(py_kernels) = Len(before.kernels) + Processed
       /\ \A i \in 1..Processed :
              /\ py_kernels[Len(before.kernels) + i] = MergedBefore[i]
              /\ (IsComposite(MergedBefore[i].key) \/ HasReadOnlyAlias(MergedBefore[i].key))
                     => (DictHas(meta_lib_impls, MergedBefore[i].key)
                            <=> DictHas(before.impls, MergedBefore[i].key))
       /\ \A op \in DictKeys(meta_lib_impls) \ DictKeys(before.impls) :
              CallsFor(py_kernels, op) # {}

\* a composite operator and a view operator went through py_impl and were
\* not installed
C24_Witness ==
    /\ Activated
    /\ last.raised = "None"
    /\ \E op \in AllOverloads :
           /\ IsComposite(op)
           /\ CallsFor(py_kernels, op) # {}
           /\ ~DictHas(meta_lib_impls, op)
    /\ \E op \in AllOverloads :
           /\ HasReadOnlyAlias(op)
           /\ CallsFor(py_kernels, op) # {}
           /\ ~DictHas(meta_lib_impls, op)

----------------------------------------------------------------------------
(* The pass reads the tables only *)

\* C25: the activation pass leaves the three mode tables and the
\* Disabled-Meta Set unchanged: the merged map is transient, and every
\* get_decompositions call returns the same before and after the pass.
C25_ActivationLeavesTablesUnchanged ==
    Activated
    => /\ global_decomposition_table = before.table
       /\ DOMAIN global_decomposition_table = {"pre_autograd", "post_autograd", "meta"}
       /\ custom_registry = before.custom
       /\ disabled_meta_decomps = before.disabled
       /\ \A aten_ops \in Requested, type \in Modes :
              get_decompositions_result(global_decomposition_table, aten_ops, type)
                  = get_decompositions_result(before.table, aten_ops, type)

\* the pass has merged a meta entry and post_autograd entries the meta table
\* does not hold
C25_Witness ==
    /\ Activated
    /\ global_decomposition_table["meta"] # EmptyDict
    /\ DictKeys(global_decomposition_table["post_autograd"])
           \ DictKeys(global_decomposition_table["meta"]) # {}
    /\ Len(py_kernels) > Len(global_decomposition_table["meta"])
    /\ global_decomposition_table = before.table

----------------------------------------------------------------------------
(* Registrations after the load *)

\* C26: a register call made after the load-time pass has completed still
\* succeeds and makes the Overload queryable through get_decompositions,
\* but does not install it as a Meta implementation: in no state does a
\* registration call meta_lib.impl or py_impl.
C26_RegistrationNeverInstalls ==
    last.op = "register_decomposition"
    => /\ meta_lib_impls = before.impls
       /\ py_kernels = before.kernels
       /\ phase = before.phase
       /\ (/\ before.phase = "loaded"
           /\ RegisteredInMode
           /\ ExpansionCount(last.aten_op) = Cardinality(ExpansionOf(last.aten_op))
           /\ ExpansionOf(last.aten_op) \cap DictKeys(before.table[last.type]) = {})
          => /\ last.raised = "None"
             /\ \A op \in ExpansionOf(last.aten_op) :
                    LET r == get_decompositions_result(global_decomposition_table,
                                                       <<op>>, last.type)
                    IN  /\ r.raised = "None"
                        /\ r.decompositions = <<[key |-> op, value |-> last.returned]>>

\* add.Tensor registered after the pass: in the table, not in the Meta library
C26_Witness ==
    /\ last.op = "register_decomposition"
    /\ before.phase = "loaded"
    /\ last.raised = "None"
    /\ last.aten_op = add_Tensor
    /\ DictHas(global_decomposition_table[last.type], add_Tensor)
    /\ ~DictHas(meta_lib_impls, add_Tensor)

----------------------------------------------------------------------------
(* Registrations into a registry of the caller *)

\* the last call was register_decomposition with a registry argument and a
\* valid mode
RegisteredInCustom ==
    /\ last.op = "register_decomposition"
    /\ last.registry = "custom"
    /\ last.type \in {"pre_autograd", "post_autograd", "meta"}

\* C27: given an explicit registry, register_decomposition inserts the
\* expanded Overloads into that mapping and detects duplicates against that
\* mapping only; the three mode tables are left unchanged whatever the mode,
\* so an Overload that the table of that mode holds can still be registered
\* into the explicit registry.
C27_ExplicitRegistryOnly ==
    RegisteredInCustom
    => /\ global_decomposition_table = before.table
       /\ IF ExpansionOf(last.aten_op) \cap DictKeys(before.custom) = {}
          THEN /\ last.raised = "None"
               /\ DictKeys(custom_registry)
                      = DictKeys(before.custom) \cup ExpansionOf(last.aten_op)
               /\ \A op \in ExpansionOf(last.aten_op) :
                      DictGet(custom_registry, op) = last.returned
          ELSE last.raised = "RuntimeError"
       /\ \A op \in DictKeys(before.custom) :
              /\ DictHas(custom_registry, op)
              /\ DictGet(custom_registry, op) = DictGet(before.custom, op)

\* add.Tensor is in the table of the mode and goes into the registry of the
\* caller without error
C27_Witness ==
    /\ RegisteredInCustom
    /\ last.aten_op = add_Tensor
    /\ DictHas(before.table[last.type], add_Tensor)
    /\ ~DictHas(before.custom, add_Tensor)
    /\ last.raised = "None"
    /\ DictHas(custom_registry, add_Tensor)

----------------------------------------------------------------------------
(* The query as a function of the requested set *)

MaxRequested == 2

RequestedItemsQuery == {add_packet, add_Tensor, view_packet, view_default}

\* the sequences a consumer may request
RequestedQuery == UNION {[1..n -> RequestedItemsQuery] : n \in 0..MaxRequested}

TargetsQuery == {add_Tensor, add_packet, view_default}

NextQuery ==
    \/ \E aten_op \in TargetsQuery, f \in Decompositions :
          /\ phase # "failed"
          /\ register_decomposition(aten_op, FALSE, "post_autograd", FALSE, f)
    \/ \E aten_ops \in RequestedQuery :
          /\ phase # "failed"
          /\ get_decompositions(aten_ops, "post_autograd")
    \/ activate_meta

SpecQuery == Init /\ [][NextQuery]_vars

\* what get_decompositions returns for aten_ops on the tables as they are
ResultOf(aten_ops) ==
    get_decompositions_result(global_decomposition_table, aten_ops,
                              last.type).decompositions

\* C28: the result of get_decompositions is, as a mapping, the union of the
\* results of querying each requested item alone; reordering requested,
\* repeating an item, or requesting a Family together with one of its
\* Overloads gives the same mapping, and so does the same call made again.
C28_QueryDependsOnRequestedSet ==
    Queried
    => /\ UniqueKeys(last.result)
       /\ DictKeys(last.result)
              = UNION {DictKeys(ResultOf(<<op>>)) : op \in RequestedItems}
       /\ \A op \in RequestedItems :
              \A k \in DictKeys(ResultOf(<<op>>)) :
                  DictGet(last.result, k) = DictGet(ResultOf(<<op>>), k)
       /\ \A aten_ops \in RequestedQuery :
              {aten_ops[i] : i \in 1..Len(aten_ops)} = RequestedItems
              => DictEq(ResultOf(aten_ops), last.result)
       /\ ResultOf(last.aten_ops) = last.result

\* an overload of one family, then the packet of another, both registered
C28_Witness ==
    /\ Queried
    /\ last.aten_ops = <<view_default, add_packet>>
    /\ DictKeys(last.result) = {view_default, add_Tensor, add_Scalar, add_out}
    /\ ~(ResultOf(<<add_packet, view_default>>) = last.result)
    /\ DictEq(ResultOf(<<add_packet, view_default>>), last.result)

----------------------------------------------------------------------------
(* LambdaSL of torch/ao/pruning/scheduler/lambda_scheduler.py *)

MaxGroups == 3

MaxLambdas == 3

\* a function of the epoch
Lambda(name) == [kind |-> "function", name |-> name]

Lambdas == {Lambda("lambda1"), Lambda("lambda2")}

\* the values sl_lambda is given: a function, or a list or tuple of functions
SlLambdaArgs ==
    {[kind |-> "function", name |-> l.name, items |-> <<>>] : l \in Lambdas}
    \cup {[kind |-> k, name |-> "", items |-> items] :
             k \in {"list", "tuple"},
             items \in UNION {[1..n -> Lambdas] : n \in 0..MaxLambdas}}

\* a pruner with n parameter groups
Pruner(n) == [groups |-> n]

\* an element of self.sl_lambdas: the function object sl_lambda stands for
function_of(sl_lambda) == Lambda(sl_lambda.name)

\* super().__init__(pruner, last_epoch, verbose): the base class keeps the
\* attributes that LambdaSL has set
BaseScheduler_init(self) == self

\* faulty variant: only a list that is too short is refused
sl_lambda_length_differs_short_only(n_lambdas, n_groups) == n_lambdas < n_groups

\* line 36: len(sl_lambda) != len(pruner.groups)
sl_lambda_length_differs(n_lambdas, n_groups) == n_lambdas # n_groups

\* lines 30-40
LambdaSL_init_result(pruner, sl_lambda) ==
    LET self == [pruner |-> pruner, sl_lambdas |-> <<>>]
    IN  IF sl_lambda.kind \notin {"list", "tuple"}
        THEN [raised |-> "None",
              self |-> BaseScheduler_init(
                           [self EXCEPT !.sl_lambdas =
                                [i \in 1..pruner.groups |-> function_of(sl_lambda)]])]
        ELSE IF sl_lambda_length_differs(Len(sl_lambda.items), pruner.groups)
        THEN [raised |-> "ValueError", self |-> self]
        ELSE [raised |-> "None",
              self |-> BaseScheduler_init([self EXCEPT !.sl_lambdas = sl_lambda.items])]

\* LambdaSL(pruner, sl_lambda)
LambdaSL_init(pruner, sl_lambda) ==
    LET r == LambdaSL_init_result(pruner, sl_lambda)
    IN  /\ scheduler' = [constructed |-> TRUE, pruner |-> pruner,
                         sl_lambda |-> sl_lambda, raised |-> r.raised,
                         sl_lambdas |-> r.self.sl_lambdas]
        /\ UNCHANGED <<global_decomposition_table, custom_registry,
                       disabled_meta_decomps, py_kernels, meta_lib_impls, phase,
                       last, before, registrations, activate_meta_calls, f_calls>>

NextLambdaSL ==
    \E n \in 0..MaxGroups, sl_lambda \in SlLambdaArgs :
        LambdaSL_init(Pruner(n), sl_lambda)

SpecLambdaSL == Init /\ [][NextLambdaSL]_vars

\* C29: LambdaSL given a list or tuple whose length differs from the number
\* of pruner groups raises ValueError; given a single function, or a list or
\* tuple of matching length, it holds exactly one lambda per group, the
\* single function being repeated for every group.
C29_LambdaSLOneLambdaPerGroup ==
    scheduler.constructed
    => IF /\ scheduler.sl_lambda.kind \in {"list", "tuple"}
          /\ Len(scheduler.sl_lambda.items) # scheduler.pruner.groups
       THEN scheduler.raised = "ValueError"
       ELSE /\ scheduler.raised = "None"
            /\ Len(scheduler.sl_lambdas) = scheduler.pruner.groups
            /\ \A i \in 1..scheduler.pruner.groups :
                   scheduler.sl_lambdas[i] =
                       (IF scheduler.sl_lambda.kind = "function"
                        THEN [kind |-> "function", name |-> scheduler.sl_lambda.name]
                        ELSE scheduler.sl_lambda.items[i])

\* a tuple of three functions for a pruner with two groups
C29_Witness ==
    /\ scheduler.constructed
    /\ scheduler.pruner.groups = 2
    /\ scheduler.sl_lambda.kind = "tuple"
    /\ Len(scheduler.sl_lambda.items) = 3
    /\ scheduler.raised = "ValueError"

====
